---- MODULE Spec2Model ----
(***************************************************************************)
(* Model of the game synchronization engine of lichess-api-demo:           *)
(* GameCtrl (constructor, onUpdate, handle, userMove, resign, onUnmount),  *)
(* GameCtrl.open's stream handler and its race with the openStream         *)
(* promise, the visualization trainer (modes, settings, memory timer, the   *)
(* board element's classes, subscriptions), and the move                   *)
(* notation helper.                                                        *)
(*                                                                         *)
(* The rules engine (chessops) is an external library.  It is modelled on  *)
(* a reduced board (one file, four ranks, one stepping piece per side)     *)
(* that keeps the library's interface as the controller uses it: parseUci  *)
(* yields undefined for a token that is not two squares (plus an optional  *)
(* promotion letter), Chess.play applies a move WITHOUT checking legality  *)
(* and raises a TypeError when handed undefined, and legality is a         *)
(* separate predicate that the controller never calls.                     *)
(*                                                                         *)
(* Strings that the code slices (move tokens, display forms) are tuples of *)
(* one-character strings, so that substring, length and concatenation are  *)
(* computed as the code computes them.                                     *)
(***************************************************************************)
EXTENDS Integers, Sequences, FiniteSets, TLC

VARIABLES
    ctrl,            \* "unset" | "live" | "unmounted": the ctrl binding of GameCtrl.open
    game,            \* GameCtrl.game
    pov,             \* GameCtrl.pov
    chess,           \* GameCtrl.chess  (DerivedPosition)
    lastMove,        \* GameCtrl.lastMove
    lastMoveCount,   \* GameCtrl.lastMoveCount  (the watermark)
    ground,          \* GameCtrl.ground (the chessground board: its turn colour
                     \* and the premove queued on it), or NoGround
    redrawInterval,  \* TRUE while the setInterval(root.redraw, 100) timer is armed
    streamOpen,      \* TRUE until stream.close()
    pending,         \* number of commands awaiting the remote endpoint's response
    fx,              \* what the last step did: its outputs, and whether it
                     \* assigned lastUpdateAt = Date.now()
    stream,          \* the local 'stream' of GameCtrl.open
    ctrlStream,      \* GameCtrl.stream, the constructor's second argument
    callbacks,       \* visualizationTrainer.callbacks: how many are registered
    currentMode,     \* visualizationTrainer.currentMode
    settings,        \* visualizationTrainer.settings
    memoryTimer,     \* visualizationTrainer.memoryTimer: "undefined", or the
                     \* timeout it names is "pending" or has "fired"
    orphans,         \* hide timeouts pending that memoryTimer no longer names
    boardElement,    \* the classes of document.querySelector('.cg-wrap'),
                     \* or NoElement
    uciArg,          \* the argument of a call of the uciToAlgebraic's
    algebraic        \* what GameCtrl's call returned (value) and what the
                     \* util, board view and move-list view conversions
                     \* returned for the same argument, or NotCalled

\* The engine and its connection
engine == <<ctrl, game, pov, chess, lastMove, lastMoveCount,
            ground, redrawInterval, streamOpen, pending, fx, stream, ctrlStream>>

\* The visualization trainer
trainerState == <<currentMode, settings, memoryTimer, orphans, boardElement>>

trainer == <<callbacks, trainerState>>

\* A call of the notation helper
notation == <<uciArg, algebraic>>

vars == <<engine, trainer, notation>>

-----------------------------------------------------------------------------
(* Bounds *)

MaxMoves == 2      \* longest move list a message carries
MaxPending == 1    \* commands in flight at once
MaxLen == 6        \* longest string handed to uciToAlgebraic

-----------------------------------------------------------------------------
(* Strings as tuples of characters *)

Str2(a, b) == <<a, b>>

Substring(s, from, to) ==
    \* String.prototype.substring(from, to) for 0 <= from <= to, clamped to length
    LET hi == IF to > Len(s) THEN Len(s) ELSE to
        lo == IF from > hi THEN hi ELSE from
    IN  SubSeq(s, lo + 1, hi)

ToUpperCaseChar(c) ==
    CASE c = "q" -> "Q"
      [] c = "r" -> "R"
      [] c = "b" -> "B"
      [] c = "n" -> "N"
      [] c = "k" -> "K"
      [] c = "a" -> "A"
      [] c = "x" -> "X"
      [] OTHER -> c

ToUpperCase(s) == [i \in 1..Len(s) |-> ToUpperCaseChar(s[i])]

\* uciToAlgebraic as the move list of the game view has it: no promotion
uciToAlgebraic_NoPromotion(uci) ==
    IF Len(uci) < 4 THEN <<>>
    ELSE Substring(uci, 0, 2) \o <<"-">> \o Substring(uci, 2, 4)

\* GameCtrl.uciToAlgebraic
uciToAlgebraic(uci) ==
    IF Len(uci) < 4 THEN <<>>
    ELSE LET from == Substring(uci, 0, 2)
             to == Substring(uci, 2, 4)
             promotion == IF Len(uci) > 4 THEN Substring(uci, 4, Len(uci)) ELSE <<>>
             move == from \o <<"-">> \o to
         IN  IF promotion # <<>> THEN move \o <<"=">> \o ToUpperCase(promotion)
             ELSE move

\* util.uciToAlgebraic, the exported conversion
util_uciToAlgebraic(uci) ==
    IF Len(uci) < 4 THEN <<>>
    ELSE LET from == Substring(uci, 0, 2)
             to == Substring(uci, 2, 4)
             promotion == IF Len(uci) > 4 THEN Substring(uci, 4, Len(uci)) ELSE <<>>
             move == from \o <<"-">> \o to
         IN  IF promotion # <<>> THEN move \o <<"=">> \o ToUpperCase(promotion)
             ELSE move

\* The board view's uciToAlgebraic, behind the player panels' last move
board_uciToAlgebraic(uci) ==
    IF Len(uci) < 4 THEN <<>>
    ELSE LET from == Substring(uci, 0, 2)
             to == Substring(uci, 2, 4)
             promotion == IF Len(uci) > 4 THEN Substring(uci, 4, Len(uci)) ELSE <<>>
             move == from \o <<"-">> \o to
         IN  IF promotion # <<>> THEN move \o <<"=">> \o ToUpperCase(promotion)
             ELSE move

\* The move-list view's uciToAlgebraic: `${from}-${to}`, whatever follows
\* the fourth character
moveList_uciToAlgebraic(uci) ==
    IF Len(uci) < 4 THEN <<>>
    ELSE LET from == Substring(uci, 0, 2)
             to == Substring(uci, 2, 4)
         IN  from \o <<"-">> \o to

-----------------------------------------------------------------------------
(* The rules engine on the reduced board *)

\* JavaScript's undefined, one value per type it stands in for, so that every
\* comparison is between values of one kind
UndefinedSquare == <<>>
UndefinedMove == [undefined |-> TRUE]
FenError == [error |-> TRUE]

Colors == {"white", "black"}

opposite(c) == IF c = "white" THEN "black" ELSE "white"

Ranks == <<"1", "2", "3", "4">>

Squares == {Str2("a", Ranks[i]) : i \in 1..4}

RankNum(sq) == CHOOSE i \in 1..4 : Ranks[i] = sq[2]

Roles == {"q", "r", "b", "n", "k"}

\* chessops parseSquare: a square of the board, or undefined
parseSquare(s) == IF s \in Squares THEN s ELSE UndefinedSquare

\* chessops parseUci: two squares and an optional promotion role, or undefined
parseUci(str) ==
    IF Len(str) = 4 \/ Len(str) = 5
    THEN LET from == parseSquare(Substring(str, 0, 2))
             to == parseSquare(Substring(str, 2, 4))
         IN  IF Len(str) = 5 /\ str[5] \notin Roles THEN UndefinedMove
             ELSE IF from # UndefinedSquare /\ to # UndefinedSquare
                  THEN [from |-> from, to |-> to]
                  ELSE UndefinedMove
    ELSE UndefinedMove

Piece(c) == IF c = "white" THEN "w" ELSE "b"

EmptyBoard == [sq \in Squares |-> "-"]

\* chessops defaultSetup(): white on a1, black on a4, white to move
defaultSetup ==
    [board |-> [EmptyBoard EXCEPT ![Str2("a", "1")] = "w", ![Str2("a", "4")] = "b"],
     turn |-> "white"]

FenBlackToMove == "b/1/1/w b"
FenInvalid == "b/1/1/w ?"

\* game.initialFen: the sentinel, or the encoding of a position
ValidFens == {"startpos", FenBlackToMove}

\* ... or a string that parseFen rejects
InitialFens == ValidFens \cup {FenInvalid}

\* chessops parseFen(fen): a setup, or an error that unwrap() raises
parseFen(fen) ==
    IF fen = FenBlackToMove THEN [defaultSetup EXCEPT !.turn = "black"]
    ELSE FenError

\* chessops Chess.prototype.play: applies the move, no legality check
play(pos, move) ==
    LET piece == pos.board[move.from]
        flipped == [pos EXCEPT !.turn = opposite(pos.turn)]
    IN  IF piece = "-" THEN flipped
        ELSE [flipped EXCEPT !.board =
                 [pos.board EXCEPT ![move.from] = "-", ![move.to] = piece]]

\* chessops Chess.prototype.isLegal on the reduced board: the mover's own
\* piece steps one rank onto a square its own side does not occupy
isLegal(pos, move) ==
    /\ pos.board[move.from] = Piece(pos.turn)
    /\ pos.board[move.to] # Piece(pos.turn)
    /\ (RankNum(move.from) - RankNum(move.to)) \in {1, -1}

-----------------------------------------------------------------------------
(* Messages of the stream *)

Token(f1, r1, f2, r2) == <<f1, r1, f2, r2>>

a1a2 == Token("a", "1", "a", "2")
a4a3 == Token("a", "4", "a", "3")
a9a1 == Token("a", "9", "a", "1")    \* not two squares: parseUci gives undefined

Tokens == {a1a2, a4a3, a9a1}

\* msg.moves, as the list split(' ') makes of it: the empty string splits into
\* one empty token, and a string of tokens joined by single spaces into them
MovesOver(tokens) ==
    {<< <<>> >>} \cup UNION {[1..n -> tokens] : n \in 1..MaxMoves}

MovesStrings == MovesOver(Tokens)

Me == "me"           \* root.auth.me.id
UserIds == {"me", "opp"}

Statuses == {"started", "resign"}

ClockValues == {60}

\* What a stream may carry is given by env: the initial positions (fens), the
\* identities of the black player (ids), the statuses and the move tokens

\* The incremental-state messages of env
GameStateMsgs(env) ==
    [type : {"gameState"}, moves : MovesOver(env.tokens), status : env.statuses,
     wtime : ClockValues, btime : ClockValues]

\* The full-state messages of env
GameFullMsgs(env) ==
    [type : {"gameFull"}, id : {"abc123"}, initialFen : env.fens,
     white : [id : {"opp"}], black : [id : env.ids],
     state : GameStateMsgs(env)]

UnknownMsgs == [type : {"chatLine", "opponentGone"}]

-----------------------------------------------------------------------------
(* State before construction *)

NoGame == [type |-> "none"]
NoGround == [absent |-> TRUE]
NoLastMove == <<>>
NoPremove == [unset |-> TRUE]     \* the board's premovable.current, undefined

\* The handle openStream resolves to, and the value of a variable it has not
\* been assigned to
StreamHandle == "handle"
UndefinedStream == "undefined"

\* algebraic before uciToAlgebraic has been called
NotCalled ==
    [returned |-> FALSE, value |-> <<>>, util |-> <<>>, board |-> <<>>,
     moveList |-> <<>>]

\* fx: op names the step; emitted lists the speakMove calls, threw the
\* exception raised, logged a console.error, redraw a root.redraw() call, sent
\* the command posted, stamped an assignment of lastUpdateAt; was is the
\* watermark before the step, and sameMoves tells that a handled gameState
\* carried the moves string the game already had; kind is the type of the
\* message GameCtrl.open's handler was given, resolved a call of resolve(ctrl),
\* playPremove a call of ground.playPremove(), and flushed tells that the
\* call found a premove queued
NoFx == [op |-> "init", emitted |-> <<>>, threw |-> "none", logged |-> FALSE,
         redraw |-> FALSE, sent |-> <<>>, stamped |-> FALSE, was |-> 0,
         sameMoves |-> FALSE, kind |-> "none", resolved |-> FALSE,
         playPremove |-> FALSE, flushed |-> FALSE]

Fx(op) == [NoFx EXCEPT !.op = op, !.was = lastMoveCount]

\* Handlers run to completion, one at a time: a step starts only when the
\* one before it has returned to the event loop
Idle == fx = NoFx

-----------------------------------------------------------------------------
(* GameCtrl.onUpdate *)

\* moves.split(' ').filter(m => m)
SplitMoves(raw) == SelectSeq(raw, LAMBDA m : m # <<>>)

\* moves.forEach(uci => this.chess.play(parseUci(uci)!)): the position after
\* the tokens from i on, or the position reached when play(undefined) raises
RECURSIVE Replay(_, _, _)
Replay(pos, moves, i) ==
    IF i > Len(moves) THEN [chess |-> pos, threw |-> FALSE]
    ELSE LET m == parseUci(moves[i])
         IN  IF m = UndefinedMove THEN [chess |-> pos, threw |-> TRUE]
             ELSE Replay(play(pos, m), moves, i + 1)

\* Notification with the comparison 'currentMoveCount >= this.lastMoveCount'
Notification_AtOrAbove(moves, watermark) ==
    IF Len(moves) >= watermark /\ Len(moves) > 0
    THEN <<[move |-> uciToAlgebraic(moves[Len(moves)]),
            color |-> IF Len(moves) % 2 = 1 THEN "white" ELSE "black"]>>
    ELSE <<>>

\* The notification speakMove(algebraic, color) of lines 54-60, if any
Notification(moves, watermark) ==
    LET currentMoveCount == Len(moves)
    IN  IF currentMoveCount > watermark
        THEN <<[move |-> uciToAlgebraic(moves[Len(moves)]),
                color |-> IF currentMoveCount % 2 = 1 THEN "white" ELSE "black"]>>
        ELSE <<>>

\* Watermark with the assignment moved out of the if
Watermark_Unconditional(moves, watermark) == Len(moves)

\* Lines 53-60: the watermark after the check
Watermark(moves, watermark) ==
    IF Len(moves) > watermark THEN Len(moves) ELSE watermark

\* The board lets a move of pv's piece through when the game is being played
\* (movable.color), it is pv's turn and the move is among movable.dests, the
\* legal moves chessgroundDests(chess) lists
canMove(g, pos, pv, move) ==
    /\ g.state.status = "started"
    /\ pos.turn = pv
    /\ pos.board[move.from] = Piece(pv)
    /\ isLegal(pos, move)

\* if (this.chess.turn == this.pov) this.ground?.playPremove() is reached
\* with a board
PlayPremoveCalled(gr, pos, pv) == gr # NoGround /\ pos.turn = pv

\* PremoveFlushed without the comparison of the turn with pov
PremoveFlushed_AnyTurn(gr, pos, pv) ==
    gr # NoGround /\ gr.premove # NoPremove

\* ... and the board holds a premove
PremoveFlushed(gr, pos, pv) ==
    PlayPremoveCalled(gr, pos, pv) /\ gr.premove # NoPremove

\* ... which the board plays, calling events.move = this.userMove
PremoveSubmitted(g, gr, pos, pv) ==
    PremoveFlushed(gr, pos, pv) /\ canMove(g, pos, pv, gr.premove)

\* ground?.set(this.chessgroundConfig()); if (turn == pov) ground?.playPremove():
\* the board takes the turn colour of the position; playPremove() clears the
\* premove, and when it plays it userMove flips the turn colour
GroundAfterUpdate(g, gr, pos, pv) ==
    IF gr = NoGround THEN NoGround
    ELSE IF PremoveSubmitted(g, gr, pos, pv)
         THEN [turnColor |-> opposite(pv), premove |-> NoPremove]
    ELSE IF PremoveFlushed(gr, pos, pv)
         THEN [turnColor |-> pos.turn, premove |-> NoPremove]
    ELSE [gr EXCEPT !.turnColor = pos.turn]

\* onUpdate on game g: the fields it leaves and what it emitted.  old holds
\* the fields before the call.
onUpdate(g, old, gr, pv) ==
    LET setup == IF g.initialFen = "startpos" THEN defaultSetup
                 ELSE parseFen(g.initialFen)
    IN  IF setup = FenError
        THEN [old EXCEPT !.threw = "unwrap"]
        ELSE LET moves == SplitMoves(g.state.moves)
                 r == Replay(setup, moves, 1)
                 said == Notification(moves, old.lastMoveCount)
                 wm == Watermark(moves, old.lastMoveCount)
             IN  IF r.threw
                 THEN [old EXCEPT !.chess = r.chess, !.lastMoveCount = wm,
                                  !.emitted = said, !.threw = "TypeError"]
                 ELSE [chess |-> r.chess,
                       lastMove |-> IF Len(moves) > 0
                                    THEN <<Substring(moves[Len(moves)], 0, 2),
                                           Substring(moves[Len(moves)], 2, 4)>>
                                    ELSE NoLastMove,
                       stamped |-> TRUE,
                       lastMoveCount |-> wm,
                       ground |-> GroundAfterUpdate(g, gr, r.chess, pv),
                       emitted |-> said,
                       threw |-> "none",
                       playPremove |-> PlayPremoveCalled(gr, r.chess, pv),
                       flushed |-> PremoveFlushed(gr, r.chess, pv),
                       sent |-> IF PremoveSubmitted(g, gr, r.chess, pv)
                                THEN <<"move", gr.premove.from, gr.premove.to>>
                                ELSE <<>>]

\* The fields onUpdate reads and writes, as a record
Fields ==
    [chess |-> chess, lastMove |-> lastMove, stamped |-> FALSE,
     lastMoveCount |-> lastMoveCount, ground |-> ground,
     emitted |-> <<>>, threw |-> "none", playPremove |-> FALSE,
     flushed |-> FALSE, sent |-> <<>>]

\* The field initialisers of a new GameCtrl (lines 23-28)
NewFields ==
    [chess |-> defaultSetup, lastMove |-> NoLastMove, stamped |-> TRUE,
     lastMoveCount |-> 0, ground |-> NoGround, emitted |-> <<>>, threw |-> "none",
     playPremove |-> FALSE, flushed |-> FALSE, sent |-> <<>>]

-----------------------------------------------------------------------------
(* VisualizationTrainer: board classes and the memory timer *)

\* document.querySelector('.cg-wrap') finds nothing
NoElement == [missing |-> TRUE]

\* The element as the board view inserts it: none of the trainer's classes
NewElement == [viz |-> "none", hideMoves |-> FALSE, hideTargets |-> FALSE]

\* updateBoardMode(subMode): the element gets the class viz-<modeClass> in
\* place of every other viz- class, and hide-moves / hide-targets after the
\* settings; nothing happens when there is no element
updateBoardMode(el, modeClass, st) ==
    IF el = NoElement THEN NoElement
    ELSE [viz |-> modeClass, hideMoves |-> ~st.showMoves,
          hideTargets |-> ~st.showTargets]

\* The two timer fields as a record
Timers == [memoryTimer |-> memoryTimer, orphans |-> orphans]

\* clearMemoryTimer(): clearTimeout of the timeout the field names, which
\* cancels it if it is pending, and the field becomes undefined
clearMemoryTimer(t) == [t EXCEPT !.memoryTimer = "undefined"]

\* startMemoryTimer(): with a non-zero memoryTime the field names a new
\* timeout; a pending one it named before stays pending, named by nothing
startMemoryTimer(t, st) ==
    IF st.memoryTime # 0
    THEN [memoryTimer |-> "pending",
          orphans |-> IF t.memoryTimer = "pending"
                      THEN t.orphans + 1 ELSE t.orphans]
    ELSE t

\* Hide timeouts pending
PendingTimeouts == (IF memoryTimer = "pending" THEN 1 ELSE 0) + orphans

-----------------------------------------------------------------------------
(* Initial state: GameCtrl.open has been called, openStream has not resolved
   and no message has arrived *)

InitEngine ==
    /\ ctrl = "unset"
    /\ game = NoGame
    /\ pov = "white"
    /\ chess = defaultSetup
    /\ lastMove = NoLastMove
    /\ lastMoveCount = 0
    /\ ground = NoGround
    /\ redrawInterval = FALSE
    /\ streamOpen = TRUE
    /\ pending = 0
    /\ fx = NoFx
    /\ stream = UndefinedStream
    /\ ctrlStream = UndefinedStream

\* The trainer is a module-level singleton: no callback, mode 'standard',
\* no timer; no board has been rendered
InitTrainer ==
    /\ callbacks = 0
    /\ currentMode = "standard"
    /\ settings = [mode |-> "standard", showMoves |-> TRUE,
                   showTargets |-> TRUE, memoryTime |-> 5000]
    /\ memoryTimer = "undefined"
    /\ orphans = 0
    /\ boardElement = NoElement

Init ==
    /\ InitEngine
    /\ InitTrainer
    /\ uciArg = <<>>
    /\ algebraic = NotCalled

\* Assign the fields onUpdate produced; a premove it played is a command posted
Adopt(r) ==
    /\ chess' = r.chess
    /\ lastMove' = r.lastMove
    /\ lastMoveCount' = r.lastMoveCount
    /\ ground' = r.ground
    /\ pending' = IF r.sent # <<>> THEN pending + 1 ELSE pending

-----------------------------------------------------------------------------
(* GameCtrl.open *)

\* stream = await root.auth.openStream(...): the promise has resolved and the
\* continuation assigns the local.  The handler may have been called before.
OpenStreamResolves ==
    /\ Idle
    /\ stream = UndefinedStream
    /\ stream' = StreamHandle
    /\ fx' = Fx("openStream")
    /\ UNCHANGED <<ctrl, game, pov, chess, lastMove, lastMoveCount, ground,
                   redrawInterval, streamOpen, pending, ctrlStream>>
    /\ UNCHANGED <<trainer, notation>>

PovOf(g) == IF g.black.id = Me THEN "black" ELSE "white"

\* The handler's first message: new GameCtrl(msg, stream, root); resolve(ctrl).
\* The constructor on a gameFull message: when onUpdate raises, the
\* constructor raises, ctrl stays unassigned and the object is dropped.
Construct(msg) ==
    \E r \in {onUpdate(msg, NewFields, NoGround, PovOf(msg))} :
        IF r.threw # "none"
        THEN /\ fx' = [Fx("open") EXCEPT !.emitted = r.emitted, !.threw = r.threw,
                                         !.stamped = TRUE, !.kind = msg.type]
             /\ UNCHANGED <<ctrl, game, pov, chess, lastMove, lastMoveCount,
                            ground, redrawInterval, pending, ctrlStream,
                            callbacks>>
        ELSE /\ ctrl' = "live"
             /\ game' = msg
             /\ pov' = PovOf(msg)
             /\ Adopt(r)
             /\ redrawInterval' = TRUE
             /\ ctrlStream' = stream
             /\ callbacks' = callbacks + 1
             /\ fx' = [Fx("open") EXCEPT !.emitted = r.emitted, !.stamped = TRUE,
                                         !.kind = msg.type, !.resolved = TRUE]

\* ConstructFails that builds an engine around whatever came first
ConstructFails_Constructs(msg) ==
    /\ ctrl' = "live"
    /\ ctrlStream' = stream
    /\ callbacks' = callbacks + 1
    /\ redrawInterval' = TRUE
    /\ fx' = [Fx("open") EXCEPT !.stamped = TRUE, !.kind = msg.type,
                                !.resolved = TRUE]
    /\ UNCHANGED <<game, pov, chess, lastMove, lastMoveCount, ground, pending>>

\* The constructor on a first message that is no gameFull: it has no black
\* player, this.game.black.id raises, ctrl stays unassigned
ConstructFails(msg) ==
    /\ fx' = [Fx("open") EXCEPT !.threw = "TypeError", !.stamped = TRUE,
                                !.kind = msg.type]
    /\ UNCHANGED <<ctrl, game, pov, chess, lastMove, lastMoveCount,
                   ground, redrawInterval, pending, ctrlStream, callbacks>>

Open(env) ==
    /\ Idle
    /\ ctrl = "unset"
    /\ streamOpen
    /\ \E msg \in GameFullMsgs(env) \cup GameStateMsgs(env) \cup UnknownMsgs :
          IF msg.type = "gameFull" THEN Construct(msg) ELSE ConstructFails(msg)
    /\ UNCHANGED <<streamOpen, stream, trainerState, notation>>

-----------------------------------------------------------------------------
(* GameCtrl.handle: if (ctrl) ctrl.handle(msg), for as long as the stream
   delivers *)

\* After this.game has been assigned: onUpdate, then root.redraw() unless
\* onUpdate raised
UpdateAndRedraw(op, g) ==
    \E r \in {onUpdate(g, Fields, ground, pov)} :
        /\ game' = g
        /\ Adopt(r)
        /\ fx' = [Fx(op) EXCEPT !.emitted = r.emitted, !.threw = r.threw,
                                !.stamped = r.stamped,
                                !.redraw = (r.threw = "none"),
                                !.sameMoves = (op = "gameState" /\
                                               g.state.moves = game.state.moves),
                                !.playPremove = r.playPremove,
                                !.flushed = r.flushed,
                                !.sent = r.sent]

\* HandleGameFull that derives pov again from the new game record
HandleGameFull_RecomputesPov(env) ==
    /\ Idle
    /\ ctrl # "unset"
    /\ streamOpen
    /\ \E msg \in GameFullMsgs(env) :
          /\ UpdateAndRedraw("gameFull", msg)
          /\ pov' = PovOf(msg)
    /\ UNCHANGED <<ctrl, redrawInterval, streamOpen, stream, ctrlStream>>
    /\ UNCHANGED <<trainer, notation>>

HandleGameFull(env) ==
    /\ Idle
    /\ ctrl # "unset"
    /\ streamOpen
    /\ \E msg \in GameFullMsgs(env) : UpdateAndRedraw("gameFull", msg)
    /\ UNCHANGED <<ctrl, pov, redrawInterval, streamOpen, stream, ctrlStream>>
    /\ UNCHANGED <<trainer, notation>>

HandleGameState(env) ==
    /\ Idle
    /\ ctrl # "unset"
    /\ streamOpen
    /\ \E msg \in GameStateMsgs(env) :
          UpdateAndRedraw("gameState", [game EXCEPT !.state = msg])
    /\ UNCHANGED <<ctrl, pov, redrawInterval, streamOpen, stream, ctrlStream>>
    /\ UNCHANGED <<trainer, notation>>

\* HandleUnknown with a default case that raises
HandleUnknown_Raises ==
    /\ Idle
    /\ ctrl # "unset"
    /\ streamOpen
    /\ \E msg \in UnknownMsgs : fx' = [Fx("unknown") EXCEPT !.threw = "Error"]
    /\ UNCHANGED <<ctrl, game, pov, chess, lastMove, lastMoveCount, ground,
                   redrawInterval, streamOpen, pending, stream, ctrlStream>>
    /\ UNCHANGED <<trainer, notation>>

HandleUnknown ==
    /\ Idle
    /\ ctrl # "unset"
    /\ streamOpen
    /\ \E msg \in UnknownMsgs : fx' = [Fx("unknown") EXCEPT !.logged = TRUE]
    /\ UNCHANGED <<ctrl, game, pov, chess, lastMove, lastMoveCount, ground,
                   redrawInterval, streamOpen, pending, stream, ctrlStream>>
    /\ UNCHANGED <<trainer, notation>>

-----------------------------------------------------------------------------
(* The board view: ctrl.setGround(Chessground(elm, config)), and the user
   queueing a premove on the board *)

\* chessgroundConfig(), as far as the board keeps it; a new board holds no
\* premove
chessgroundConfig == [turnColor |-> chess.turn, premove |-> NoPremove]

setGround ==
    /\ Idle
    /\ ctrl = "live"
    /\ ground = NoGround
    /\ ground' = chessgroundConfig
    /\ boardElement' = updateBoardMode(NewElement, currentMode, settings)
    /\ fx' = Fx("setGround")
    /\ UNCHANGED <<ctrl, game, pov, chess, lastMove, lastMoveCount,
                   redrawInterval, streamOpen, pending, stream, ctrlStream>>
    /\ UNCHANGED <<callbacks, currentMode, settings, memoryTimer, orphans,
                   notation>>

\* Commands in flight, counting the one a queued premove will post
Committed ==
    IF ground # NoGround /\ ground.premove # NoPremove
    THEN pending + 1 ELSE pending

\* movable.color is pov while playing(): when the board's turn colour is the
\* other side's, a move of pov's piece by one rank is kept as the premove
setPremove ==
    /\ Idle
    /\ ctrl = "live"
    /\ ground # NoGround
    /\ ground.premove = NoPremove
    /\ game.state.status = "started"
    /\ ground.turnColor # pov
    /\ Committed < MaxPending
    /\ \E orig \in Squares, dest \in Squares :
          /\ chess.board[orig] = Piece(pov)
          /\ (RankNum(orig) - RankNum(dest)) \in {1, -1}
          /\ ground' = [ground EXCEPT !.premove = [from |-> orig, to |-> dest]]
    /\ fx' = Fx("setPremove")
    /\ UNCHANGED <<ctrl, game, pov, chess, lastMove, lastMoveCount,
                   redrawInterval, streamOpen, pending, stream, ctrlStream>>
    /\ UNCHANGED <<trainer, notation>>

-----------------------------------------------------------------------------
(* Outbound intents *)

\* userMove with the move applied to this.chess as well
userMove_AppliesLocally ==
    /\ Idle
    /\ ctrl = "live"
    /\ ground # NoGround
    /\ ground.turnColor = pov
    /\ Committed < MaxPending
    /\ \E orig \in Squares, dest \in Squares :
          /\ canMove(game, chess, pov, [from |-> orig, to |-> dest])
          /\ fx' = [Fx("userMove") EXCEPT !.sent = <<"move", orig, dest>>]
          /\ chess' = play(chess, [from |-> orig, to |-> dest])
    /\ ground' = [ground EXCEPT !.turnColor = opposite(pov)]
    /\ pending' = pending + 1
    /\ UNCHANGED <<ctrl, game, pov, lastMove, lastMoveCount,
                   redrawInterval, streamOpen, stream, ctrlStream>>
    /\ UNCHANGED <<trainer, notation>>

\* The board's events.move: it lets the user make only a legal move of pov's
\* piece (movable.dests), while playing() and when its turn colour is pov
userMove ==
    /\ Idle
    /\ ctrl = "live"
    /\ ground # NoGround
    /\ ground.turnColor = pov
    /\ Committed < MaxPending
    /\ \E orig \in Squares, dest \in Squares :
          /\ canMove(game, chess, pov, [from |-> orig, to |-> dest])
          /\ fx' = [Fx("userMove") EXCEPT !.sent = <<"move", orig, dest>>]
    /\ ground' = [ground EXCEPT !.turnColor = opposite(pov)]
    /\ pending' = pending + 1
    /\ UNCHANGED <<ctrl, game, pov, chess, lastMove, lastMoveCount,
                   redrawInterval, streamOpen, stream, ctrlStream>>
    /\ UNCHANGED <<trainer, notation>>

resign ==
    /\ Idle
    /\ ctrl = "live"
    /\ Committed < MaxPending
    /\ fx' = [Fx("resign") EXCEPT !.sent = <<"resign">>]
    /\ pending' = pending + 1
    /\ UNCHANGED <<ctrl, game, pov, chess, lastMove, lastMoveCount, ground,
                   redrawInterval, streamOpen, stream, ctrlStream>>
    /\ UNCHANGED <<trainer, notation>>

\* The awaited fetchBody settles; neither intent does anything after it
CommandDone ==
    /\ Idle
    /\ pending > 0
    /\ pending' = pending - 1
    /\ fx' = Fx("commandDone")
    /\ UNCHANGED <<ctrl, game, pov, chess, lastMove, lastMoveCount, ground,
                   redrawInterval, streamOpen, stream, ctrlStream>>
    /\ UNCHANGED <<trainer, notation>>

-----------------------------------------------------------------------------
(* Timer, trainer and teardown *)

\* setInterval(root.redraw, 100) fires
TimerTick ==
    /\ Idle
    /\ redrawInterval
    /\ fx' = [Fx("tick") EXCEPT !.redraw = TRUE]
    /\ UNCHANGED <<ctrl, game, pov, chess, lastMove, lastMoveCount, ground,
                   redrawInterval, streamOpen, pending, stream, ctrlStream>>
    /\ UNCHANGED <<trainer, notation>>

\* The modes the trainer is switched between
Modes == {"standard", "minimal"}

\* Every VisualizationMode
VisualizationModes == {"standard", "minimal", "checkers", "monochrome",
                       "invisible", "memory", "blindfold"}

\* The values setMemoryTime is called with, in seconds: 0 and the default
MemorySeconds == {0, 5}

\* The trainer's steps leave the engine alone
TrainerStep(op, notifies) ==
    /\ fx' = [Fx(op) EXCEPT !.redraw = (notifies /\ callbacks > 0)]
    /\ UNCHANGED <<ctrl, game, pov, chess, lastMove, lastMoveCount, ground,
                   redrawInterval, streamOpen, pending, stream, ctrlStream>>
    /\ UNCHANGED <<callbacks, notation>>

\* visualizationTrainer.setMode(mode): a change of mode clears the memory
\* timer, calls every registered callback (the engine's callback is
\* () => this.root.redraw()), sets the board's class and, for 'memory' with
\* a non-zero memoryTime, starts the memory timer
setMode(modes) ==
    /\ Idle
    /\ \E mode \in modes :
          IF currentMode # mode
          THEN LET st == [settings EXCEPT !.mode = mode]
                   cleared == clearMemoryTimer(Timers)
                   t == IF mode = "memory" /\ st.memoryTime # 0
                        THEN startMemoryTimer(cleared, st) ELSE cleared
               IN  /\ currentMode' = mode
                   /\ settings' = st
                   /\ boardElement' = updateBoardMode(boardElement, mode, st)
                   /\ memoryTimer' = t.memoryTimer
                   /\ orphans' = t.orphans
                   /\ TrainerStep("setMode", TRUE)
          ELSE /\ UNCHANGED trainerState
               /\ TrainerStep("setMode", FALSE)

\* toggleShowMoves(): flips the setting, calls the callbacks, and sets the
\* board's classes with no subMode
toggleShowMoves ==
    /\ Idle
    /\ LET st == [settings EXCEPT !.showMoves = ~settings.showMoves]
       IN  /\ settings' = st
           /\ boardElement' = updateBoardMode(boardElement, currentMode, st)
    /\ TrainerStep("toggleShowMoves", TRUE)
    /\ UNCHANGED <<currentMode, memoryTimer, orphans>>

\* toggleShowTargets(): the same for showTargets
toggleShowTargets ==
    /\ Idle
    /\ LET st == [settings EXCEPT !.showTargets = ~settings.showTargets]
       IN  /\ settings' = st
           /\ boardElement' = updateBoardMode(boardElement, currentMode, st)
    /\ TrainerStep("toggleShowTargets", TRUE)
    /\ UNCHANGED <<currentMode, memoryTimer, orphans>>

\* setMemoryTime(seconds): stores seconds * 1000 and, in memory mode,
\* clears and restarts the timer; the board's class is left as it is
setMemoryTime ==
    /\ Idle
    /\ \E seconds \in MemorySeconds :
          LET st == [settings EXCEPT !.memoryTime = seconds * 1000]
              t == IF currentMode = "memory"
                   THEN startMemoryTimer(clearMemoryTimer(Timers), st)
                   ELSE Timers
          IN  /\ settings' = st
              /\ memoryTimer' = t.memoryTimer
              /\ orphans' = t.orphans
    /\ TrainerStep("setMemoryTime", FALSE)
    /\ UNCHANGED <<currentMode, boardElement>>

\* initializeBoard(): updateBoardMode() with no subMode
initializeBoard ==
    /\ Idle
    /\ boardElement' = updateBoardMode(boardElement, currentMode, settings)
    /\ TrainerStep("initializeBoard", FALSE)
    /\ UNCHANGED <<currentMode, settings, memoryTimer, orphans>>

\* resetMemoryMode(): in memory mode, clears the timer, shows the pieces
\* and starts the timer again; nothing in any other mode
resetMemoryMode ==
    /\ Idle
    /\ IF currentMode = "memory"
       THEN LET t == startMemoryTimer(clearMemoryTimer(Timers), settings)
            IN  /\ boardElement' =
                       updateBoardMode(boardElement, currentMode, settings)
                /\ memoryTimer' = t.memoryTimer
                /\ orphans' = t.orphans
       ELSE UNCHANGED <<boardElement, memoryTimer, orphans>>
    /\ TrainerStep("resetMemoryMode", FALSE)
    /\ UNCHANGED <<currentMode, settings>>

\* A pending hide timeout fires: updateBoardMode('memory-hidden'); the
\* field memoryTimer keeps naming the timeout that has fired
MemoryTimerFires ==
    /\ Idle
    /\ PendingTimeouts > 0
    /\ \/ /\ memoryTimer = "pending"
          /\ memoryTimer' = "fired"
          /\ UNCHANGED orphans
       \/ /\ orphans > 0
          /\ orphans' = orphans - 1
          /\ UNCHANGED memoryTimer
    /\ boardElement' = updateBoardMode(boardElement, "memory-hidden", settings)
    /\ TrainerStep("memoryTimer", FALSE)
    /\ UNCHANGED <<currentMode, settings>>

\* The view's destroy hook: this.stream.close() raises on a stream that is
\* undefined, before clearInterval is reached and before the layout, the
\* board element in it, is taken out of the document
onUnmount ==
    /\ Idle
    /\ ctrl = "live"
    /\ ctrl' = "unmounted"
    /\ IF ctrlStream = UndefinedStream
       THEN /\ fx' = [Fx("unmount") EXCEPT !.threw = "TypeError"]
            /\ UNCHANGED <<streamOpen, redrawInterval, boardElement>>
       ELSE /\ streamOpen' = FALSE
            /\ redrawInterval' = FALSE
            /\ boardElement' = NoElement
            /\ fx' = Fx("unmount")
    /\ UNCHANGED <<game, pov, chess, lastMove, lastMoveCount,
                   ground, pending, stream, ctrlStream>>
    /\ UNCHANGED <<callbacks, currentMode, settings, memoryTimer, orphans,
                   notation>>

\* The step returns to the event loop: its outputs have gone to the speech,
\* console, rendering and command collaborators
Return ==
    /\ ~Idle
    /\ fx' = NoFx
    /\ UNCHANGED <<ctrl, game, pov, chess, lastMove, lastMoveCount, ground,
                   redrawInterval, streamOpen, pending, stream, ctrlStream>>
    /\ UNCHANGED <<trainer, notation>>

-----------------------------------------------------------------------------
(* The notation helper, called on its own *)

Alphabet == {"a", "1", "2", "q", "9"}

\* The strings of at most MaxLen characters
UciInputs == UNION {[1..n -> Alphabet] : n \in 0..MaxLen}

InitNotation ==
    /\ InitEngine
    /\ InitTrainer
    /\ uciArg \in UciInputs
    /\ algebraic = NotCalled

\* Each of the four conversions is called with the same token
CallUciToAlgebraic ==
    /\ algebraic = NotCalled
    /\ algebraic' = [returned |-> TRUE,
                     value |-> uciToAlgebraic(uciArg),
                     util |-> util_uciToAlgebraic(uciArg),
                     board |-> board_uciToAlgebraic(uciArg),
                     moveList |-> moveList_uciToAlgebraic(uciArg)]
    /\ UNCHANGED <<engine, trainer, uciArg>>

NextNotation == CallUciToAlgebraic

SpecNotation == InitNotation /\ [][NextNotation]_vars

-----------------------------------------------------------------------------

\* The whole client: stream, board view, user and timer, on a stream of games
\* from the standard start, either side being the local user's, in any status
ClientEnv ==
    [fens |-> {"startpos"}, ids |-> UserIds, statuses |-> Statuses,
     tokens |-> {a1a2, a4a3}]

Next ==
    \/ OpenStreamResolves
    \/ Open(ClientEnv)
    \/ HandleGameFull(ClientEnv)
    \/ HandleGameState(ClientEnv)
    \/ HandleUnknown
    \/ setGround
    \/ setPremove
    \/ userMove
    \/ resign
    \/ CommandDone
    \/ TimerTick
    \/ setMode(Modes)
    \/ onUnmount
    \/ Return

Spec == Init /\ [][Next]_vars

\* The stream and the board view alone, on a stream of started games from
\* any initial position, also one that does not decode, the local user
\* playing white
SyncEnv ==
    [fens |-> InitialFens, ids |-> {"opp"}, statuses |-> {"started"},
     tokens |-> Tokens]

NextSync ==
    \/ OpenStreamResolves
    \/ Open(SyncEnv)
    \/ HandleGameFull(SyncEnv)
    \/ HandleGameState(SyncEnv)
    \/ HandleUnknown
    \/ setGround
    \/ Return

SpecSync == Init /\ [][NextSync]_vars

\* The visualization trainer with every mode, beside one game with no move
\* played whose board is rendered and taken down
TrainerEnv ==
    [fens |-> {"startpos"}, ids |-> {"opp"}, statuses |-> {"started"},
     tokens |-> {}]

NextTrainer ==
    \/ OpenStreamResolves
    \/ Open(TrainerEnv)
    \/ setGround
    \/ onUnmount
    \/ setMode(VisualizationModes)
    \/ toggleShowMoves
    \/ toggleShowTargets
    \/ setMemoryTime
    \/ initializeBoard
    \/ resetMemoryMode
    \/ MemoryTimerFires
    \/ Return

SpecTrainer == Init /\ [][NextTrainer]_vars

-----------------------------------------------------------------------------
(* The specification's view of the state *)

\* GameState.moves of the current game, as a list of tokens
CurrentMoves == SplitMoves(game.state.moves)

\* Game.initialPosition of the current game
InitialPosition ==
    IF game.initialFen = "startpos" THEN defaultSetup ELSE parseFen(game.initialFen)

\* reconstruct(initialPosition, moves) of the specification: every token must
\* parse and be legal in the position reached so far
RECURSIVE reconstruct(_, _, _)
reconstruct(pos, moves, i) ==
    IF i > Len(moves) THEN [ok |-> TRUE, position |-> pos]
    ELSE LET m == parseUci(moves[i])
         IN  IF m = UndefinedMove THEN [ok |-> FALSE, position |-> pos]
             ELSE IF ~isLegal(pos, m) THEN [ok |-> FALSE, position |-> pos]
             ELSE reconstruct(play(pos, m), moves, i + 1)

\* reconstruct on the current game; an initial position that does not decode
\* has no reconstruction
Reconstruction ==
    IF InitialPosition = FenError THEN [ok |-> FALSE, position |-> FenError]
    ELSE reconstruct(InitialPosition, CurrentMoves, 1)

Synchronized == ctrl # "unset"

HandledMessage == fx.op \in {"gameFull", "gameState"}

\* The display form of a four-character token, written out
Display4(t) == <<t[1], t[2], "-", t[3], t[4]>>

-----------------------------------------------------------------------------
(* Claims *)

\* C1: opening a game whose history already holds N >= 1 moves emits no
\* notable-move notification and seeds the watermark to N.
C1_OpenEmitsNothing ==
    (fx.op = "open" /\ ctrl = "live" /\ Len(CurrentMoves) >= 1)
        => (fx.emitted = <<>> /\ lastMoveCount = Len(CurrentMoves))

\* C2: a message whose move list is shorter than the one already processed is
\* a protocol error: the shorter list is never adopted as GameState.moves, so
\* the adopted list never gets shorter, and the position is not recomputed
\* from it.
C2_ShorterListNotAdopted ==
    [][ctrl = "live" =>
          \/ Len(SplitMoves(game'.state.moves)) >= Len(CurrentMoves)
          \/ (game'.state.moves = game.state.moves /\ chess' = chess)]_vars

\* C3: after every handled message DerivedPosition is the position reached by
\* legally applying every token of GameState.moves from Game.initialPosition.
C3_DerivedPositionIsLegalReplay ==
    Synchronized => (Reconstruction.ok /\ chess = Reconstruction.position)

\* C4: a replay over a list holding a token that does not parse, or is not
\* legal where it is played, fails with an error.
C4_BadTokenFailsReplay ==
    (ctrl = "live" /\ HandledMessage /\ ~Reconstruction.ok) => fx.threw # "none"

\* C5: when the replay of an update fails, the game record, DerivedPosition
\* and the watermark stay those of the last successfully processed message.
C5_FailedUpdateAdoptsNothing ==
    [][(ctrl = "live" /\ fx'.threw # "none") =>
          (game' = game /\ chess' = chess /\ lastMoveCount' = lastMoveCount)]_vars

\* C6: pov is fixed when the engine is constructed: no later step changes it.
C6_PovFixed == [][Synchronized => pov' = pov]_vars

\* C6 witness: a later full-state message named the local user as black
\* while the engine keeps the white point of view.
C6_Witness ==
    /\ ctrl = "live"
    /\ fx.op = "gameFull"
    /\ game.black.id = Me
    /\ pov = "white"

\* C7: handling an incremental-state message emits exactly one notification,
\* for the last move of the list, and sets the watermark to the move count when
\* the count exceeds the watermark; otherwise it emits none and the watermark
\* stays.
C7_OneNotificationForNewest ==
    [][fx'.op = "gameState" =>
          LET moves == SplitMoves(game'.state.moves)
          IN  IF Len(moves) > lastMoveCount
              THEN /\ Len(fx'.emitted) = 1
                   /\ fx'.emitted[1].move = Display4(moves[Len(moves)])
                   /\ lastMoveCount' = Len(moves)
              ELSE /\ fx'.emitted = <<>>
                   /\ lastMoveCount' = lastMoveCount]_vars

\* C8: the watermark never decreases.
C8_WatermarkMonotone == [][lastMoveCount' >= lastMoveCount]_vars

\* C8 witness: an incremental-state message carried fewer moves than the
\* watermark counts, and the watermark stayed.
C8_Witness ==
    /\ fx.op = "gameState"
    /\ Len(CurrentMoves) < lastMoveCount
    /\ fx.was = lastMoveCount
    /\ lastMoveCount >= 1

\* C9: an incremental-state message whose moves are unchanged emits no
\* notification and leaves the watermark, DerivedPosition and the last-move
\* marker unchanged.
C9_DuplicateIsNoOp ==
    [][(fx'.op = "gameState" /\ game'.state.moves = game.state.moves) =>
          /\ fx'.emitted = <<>>
          /\ lastMoveCount' = lastMoveCount
          /\ chess' = chess
          /\ lastMove' = lastMove]_vars

\* C9 witness: a duplicate of a one-move state was handled and only the
\* timestamp was refreshed.
C9_Witness ==
    /\ fx.op = "gameState"
    /\ fx.sameMoves
    /\ fx.stamped
    /\ Len(CurrentMoves) >= 1
    /\ lastMoveCount = Len(CurrentMoves)

\* C10: a message of an unknown kind is logged and dropped: nothing is raised,
\* game, DerivedPosition, watermark, last move and pov stay, and the engine
\* still takes messages.
C10_UnknownDropped ==
    [][fx'.op = "unknown" =>
          /\ fx'.logged
          /\ fx'.threw = "none"
          /\ fx'.emitted = <<>>
          /\ game' = game /\ chess' = chess /\ lastMove' = lastMove
          /\ lastMoveCount' = lastMoveCount /\ pov' = pov
          /\ ctrl' = "live" /\ streamOpen']_vars

\* C10 witness: an unknown message was handled by an engine holding moves.
C10_Witness ==
    /\ fx.op = "unknown"
    /\ fx.logged
    /\ ctrl = "live"
    /\ lastMoveCount >= 1

\* C11: userMove and resign each post exactly one command and leave the game
\* record (moves, status, clocks), DerivedPosition, the last move and the
\* watermark as they were, when issued and when the command completes;
\* userMove changes only the board's turn colour; the game record and the
\* position change only when a stream message is handled.
C11_IntentsFrame ==
    [][/\ (fx'.op \in {"userMove", "resign", "commandDone"} =>
              /\ game' = game /\ chess' = chess
              /\ lastMove' = lastMove /\ lastMoveCount' = lastMoveCount)
       /\ (fx'.op = "userMove" =>
              /\ Len(fx'.sent) = 3 /\ fx'.sent[1] = "move"
              /\ pending' = pending + 1
              /\ ground' = [ground EXCEPT !.turnColor = opposite(pov)])
       /\ (fx'.op = "resign" =>
              /\ fx'.sent = <<"resign">>
              /\ pending' = pending + 1
              /\ ground' = ground)
       /\ (fx'.op = "commandDone" =>
              /\ fx'.sent = <<>>
              /\ pending' = pending - 1
              /\ ground' = ground)
       /\ ((ctrl # "unset" /\ (chess' # chess \/ game' # game)) =>
              fx'.op \in {"gameFull", "gameState"})]_vars

\* C11 witness: a move was submitted after two moves of the game: the command
\* is in flight and the board shows the opponent's turn while the position
\* still has the local side to move.
C11_Witness ==
    /\ fx.op = "userMove"
    /\ pending = 1
    /\ lastMoveCount >= 1
    /\ chess.turn = pov
    /\ ground.turnColor = opposite(pov)

\* C12: GameCtrl.open resolves, and an engine is constructed, only on a
\* gameFull message: a first message of another kind constructs nothing
\* (no engine, no timer, no subscription) and resolves nothing; one engine at
\* most is constructed, and once it is, every message goes to its handler.
C12_EngineFromGameFullOnly ==
    [][/\ (fx'.op = "open" =>
              /\ (fx'.kind # "gameFull" =>
                     /\ ctrl' = "unset" /\ ~fx'.resolved
                     /\ callbacks' = callbacks /\ ~redrawInterval')
              /\ (fx'.resolved <=> ctrl' = "live"))
       /\ (fx'.resolved => (fx'.op = "open" /\ fx'.kind = "gameFull"))
       /\ ((ctrl = "unset" /\ ctrl' # "unset") => fx'.resolved)
       /\ (ctrl # "unset" =>
              /\ fx'.op # "open"
              /\ callbacks' = callbacks
              /\ ctrl' # "unset")]_vars

\* C12 witness: the first message was an incremental state; the constructor
\* raised and there is still no engine.
C12_Witness ==
    /\ fx.op = "open"
    /\ fx.kind = "gameState"
    /\ fx.threw = "TypeError"
    /\ ctrl = "unset"
    /\ ~redrawInterval

\* C13: teardown closes the stream connection and cancels the redraw timer
\* without raising, no timer-driven redraw follows it, and it can be called
\* in every state after open was called, also before any message came.
C13_TeardownReleases ==
    [][/\ (fx'.op = "unmount" =>
              /\ fx'.threw = "none" /\ ~streamOpen' /\ ~redrawInterval')
       /\ (ctrl = "unmounted" => fx'.op # "tick")
       /\ ((Idle /\ ctrl # "unmounted") => ENABLED onUnmount)]_vars

\* The side to move in the position the replay has reached just before the
\* newest move of the current game is applied
MoverOfNewest ==
    Replay(InitialPosition,
           SubSeq(CurrentMoves, 1, Len(CurrentMoves) - 1), 1).chess.turn

\* C14: the notification carries the side that made the newest move, the side
\* to move just before that move is applied, whatever the initial position.
C14_NotificationNamesMover ==
    (/\ ctrl # "unset"
     /\ fx.op \in {"open", "gameFull", "gameState"}
     /\ fx.threw = "none"
     /\ fx.emitted # <<>>)
        => fx.emitted[1].color = MoverOfNewest

\* A well-formed move token: two squares, and a promotion letter if there is
\* a fifth character
WellFormed(t) == parseUci(t) # UndefinedMove

\* The promotion letter as the display form shows it
PromotionMark(c) ==
    CASE c = "q" -> "Q" [] c = "r" -> "R" [] c = "b" -> "B"
      [] c = "n" -> "N" [] c = "k" -> "K"

\* The display form of a well-formed token, written out
DisplayForm(t) ==
    IF Len(t) = 4 THEN Display4(t)
    ELSE Display4(t) \o <<"=", PromotionMark(t[5])>>

\* C15: for a well-formed token the conversion returns origin, '-',
\* destination, and '=' with the upper-cased promotion letter when there is
\* one; the result depends on the token alone.
C15_DisplayFormOfToken ==
    (algebraic.returned /\ WellFormed(uciArg))
        => algebraic.value = DisplayForm(uciArg)

\* C15 witness: the promotion a2a1q was converted to a2-a1=Q.
C15_Witness ==
    /\ algebraic.returned
    /\ uciArg = <<"a", "2", "a", "1", "q">>
    /\ algebraic.value = <<"a", "2", "-", "a", "1", "=", "Q">>

\* C16: for an input that is no well-formed token the conversion returns the
\* empty string.
C16_MalformedGivesEmpty ==
    (algebraic.returned /\ ~WellFormed(uciArg)) => algebraic.value = <<>>

\* C17: on every successful transition (construction, gameFull, gameState) a
\* queued premove is flushed if and only if the side to move of the
\* recomputed DerivedPosition is pov; a premove that is not flushed stays
\* queued.
C17_PremoveFlushedOnOwnTurn ==
    [][(fx'.op \in {"open", "gameFull", "gameState"} /\ fx'.threw = "none") =>
          LET queued == ground # NoGround /\ ground.premove # NoPremove
          IN  /\ (fx'.flushed <=> (queued /\ chess'.turn = pov'))
              /\ (fx'.flushed => ground'.premove = NoPremove)
              /\ ((queued /\ ~fx'.flushed) =>
                     ground'.premove = ground.premove)]_vars

\* C17 witness: an incremental state brought the local side to move, and the
\* queued premove was flushed and posted as a move command.
C17_Witness ==
    /\ fx.op = "gameState"
    /\ fx.flushed
    /\ chess.turn = pov
    /\ Len(fx.sent) = 3
    /\ ground.premove = NoPremove
    /\ pending = 1

\* C18: an update whose replay fails emits no notification and does not
\* advance the watermark.
C18_NotifyOnlyAfterReplay ==
    [][(fx'.op \in {"open", "gameFull", "gameState"} /\ fx'.threw # "none") =>
          (fx'.emitted = <<>> /\ lastMoveCount' = lastMoveCount)]_vars

\* C19: after teardown the engine requests no redraw on any late callback
\* (timer tick, completion of a command, change of visualization mode), and
\* teardown removes the callback the engine registered with the trainer.
C19_NothingAfterTeardown ==
    [][/\ (ctrl = "unmounted" => ~fx'.redraw)
       /\ (fx'.op = "unmount" => callbacks' = callbacks - 1)]_vars

\* C20: whichever comes first, the openStream promise resolving or the first
\* message, the engine is constructed with the stream handle assigned, and
\* its teardown closes the connection.
C20_EngineHoldsStream ==
    /\ (ctrl # "unset" => ctrlStream = StreamHandle)
    /\ (ctrl = "unmounted" => ~streamOpen)

-----------------------------------------------------------------------------
(* C21 *)

\* The board shows the pieces in memory mode
MemoryShown ==
    /\ currentMode = "memory"
    /\ boardElement # NoElement
    /\ boardElement.viz = "memory"

\* C21: in memory mode the pieces disappear after the memory time: whenever
\* the mode is 'memory', the memory time is not zero and the board shows
\* the pieces (viz-memory, not viz-memory-hidden), a hide timer is pending;
\* at most one hide timer is pending, and none outside memory mode
C21_MemoryHides ==
    /\ ((MemoryShown /\ settings.memoryTime # 0) => memoryTimer = "pending")
    /\ PendingTimeouts <= 1
    /\ (PendingTimeouts > 0 => currentMode = "memory")

-----------------------------------------------------------------------------
(* C22 *)

\* C22: the four display-form conversions (util.uciToAlgebraic,
\* GameCtrl.uciToAlgebraic, the board view's and the move-list view's
\* uciToAlgebraic) return the same string for every move token, promotion
\* moves included
C22_ConversionsAgree ==
    (algebraic.returned /\ WellFormed(uciArg))
        => /\ algebraic.util = algebraic.value
           /\ algebraic.board = algebraic.value
           /\ algebraic.moveList = algebraic.value

====
